---------------------------- MODULE Spec2Model ----------------------------
(***************************************************************************)
(* Model of the block allocator and file store of file_system.py on top    *)
(* of the block array of memory_system.py.                                 *)
(*                                                                         *)
(* file_system.py calls the block array through fill_block, get_block and  *)
(* empty_block; the only MemorySystem of the repository defines these      *)
(* operations as fillBlock, getBlock and emptyBlock.  Each call is bound   *)
(* to the method of memory_system.py that performs it, with the values     *)
(* that method returns (0 = ok, 1 = index out of range, 2 = data too       *)
(* large for fillBlock and emptyBlock; the block or 1 for getBlock).       *)
(*                                                                         *)
(* Python values are represented as follows:                               *)
(*   bytes              a sequence of byte values                          *)
(*   None in a slot     the sequence None == <<-1>>                        *)
(*   a range tuple      <<start, end>>, half open                          *)
(*   a list             a sequence                                         *)
(*   a dict             a function whose DOMAIN is the set of keys         *)
(*   a returned value   a record [tag, data]: tag "True", "False",         *)
(*                      "bytes" (data = the bytes) or the name of the      *)
(*                      exception raised                                   *)
(***************************************************************************)
EXTENDS Integers, Sequences, FiniteSets, TLC

\* ------------------------------------------------------------------ bounds
\* Largest memory_size (blocks) and block_size (bytes) of a constructed system.
MaxMem == 3
MaxBlock == 2
\* Longest payload handed to store_file.
MaxLen == 4
\* The block size and memory size of the fragmentation scenario,
\* FileSystem(10, 10).
FragBlockSize == 10
FragMemSize == 10
\* File names handed to the operations.
Ids == {"id1", "id2", "id3"}
\* Most directories in directory_table (the root included) and most files
\* held at a time by a LogicalFileSystem.
MaxDirs == 4
MaxFiles == 2
\* Directory names and file names handed to the LogicalFileSystem, and the
\* values uuid4() yields.
DirNames == {"a", "b"}
AllDirNames == DirNames \cup {"root"}
FileNames == {"f", "g"}
FileIds == 1..MaxFiles

VARIABLES
    block_size,     \* MemorySystem.block_size
    memory_size,    \* MemorySystem.memory_size
    memory,         \* MemorySystem.memory: slot index -> bytes or None
    free_blocks,    \* FileSystem._free_blocks: list of ranges
    file_table,     \* FileSystem._file_table: file name -> list of ranges
    last,           \* the last call made and what it returned
    payload_of,     \* history: file name -> payload of its last successful store
    scen,           \* history: how far the calls made so far follow FragCalls
    written,        \* history: slot index -> data of the last successful
                    \* fillBlock with no successful emptyBlock after it, or None
    directory_table,\* LogicalFileSystem.directory_table: list of Directory
    fcb_table,      \* LogicalFileSystem.fcb_table: list of FileControlBlock
    data_ids,       \* identifiers held by LogicalFileSystem._file_system
    lfs_last        \* the last LogicalFileSystem call and what it returned

lfs_vars == <<directory_table, fcb_table, data_ids, lfs_last>>

vars == <<block_size, memory_size, memory, free_blocks, file_table, last,
          payload_of, scen, written, directory_table, fcb_table, data_ids,
          lfs_last>>

\* ----------------------------------------------------------- Python values
None == <<-1>>

Ret(tag, data) == [tag |-> tag, data |-> data]

RetTrue == Ret("True", <<>>)

RetFalse == Ret("False", <<>>)

RetBytes(data) == Ret("bytes", data)

Raise(exc) == Ret(exc, <<>>)

\* len(r) of a range tuple.
RangeLen(r) == r[2] - r[1]

\* math.ceil(a / b) for a >= 0, b > 0.
ceil(a, b) == (a + b - 1) \div b

\* data[:n] and data[n:] of bytes.
Take(data, n) == SubSeq(data, 1, IF n < Len(data) THEN n ELSE Len(data))

Drop(data, n) == SubSeq(data, n + 1, Len(data))

\* list.remove(x): the list without the first element equal to x.
ListRemove(lst, x) ==
    LET i == CHOOSE k \in 1..Len(lst) :
                 lst[k] = x /\ \A j \in 1..(k - 1) : lst[j] # x
    IN  SubSeq(lst, 1, i - 1) \o SubSeq(lst, i + 1, Len(lst))

\* The blocks of a list of ranges, in range order then block order.
RECURSIVE BlocksOf(_)
BlocksOf(ranges) ==
    IF ranges = <<>> THEN <<>>
    ELSE [k \in 1..RangeLen(Head(ranges)) |-> Head(ranges)[1] + k - 1]
         \o BlocksOf(Tail(ranges))

BlockSet(ranges) == {BlocksOf(ranges)[k] : k \in 1..Len(BlocksOf(ranges))}

RECURSIVE TotalLen(_)
TotalLen(ranges) ==
    IF ranges = <<>> THEN 0 ELSE RangeLen(Head(ranges)) + TotalLen(Tail(ranges))

\* ------------------------------------------------------------ MemorySystem
validIndex(index) == ~(index < 0 \/ index >= memory_size)

\* fillBlock without the test of the data's length.
fillBlock_no_size_check(mem, index, data) ==
    IF ~validIndex(index) THEN [ret |-> 1, mem |-> mem]
    ELSE [ret |-> 0, mem |-> [mem EXCEPT ![index] = data]]

\* fillBlock(index, data): the status returned and the memory afterwards.
fillBlock(mem, index, data) ==
    IF ~validIndex(index) THEN [ret |-> 1, mem |-> mem]
    ELSE IF Len(data) > block_size THEN [ret |-> 2, mem |-> mem]
    ELSE [ret |-> 0, mem |-> [mem EXCEPT ![index] = data]]

\* getBlock(index): 1 for an invalid index, else the slot (bytes or None).
getBlock(mem, index) ==
    IF ~validIndex(index) THEN <<"status", 1>> ELSE <<"block", mem[index]>>

\* emptyBlock reporting ok without clearing the slot.
emptyBlock_no_clear(mem, index) ==
    IF ~validIndex(index) THEN [ret |-> 1, mem |-> mem]
    ELSE [ret |-> 0, mem |-> mem]

\* emptyBlock(index): the status returned and the memory afterwards.
emptyBlock(mem, index) ==
    IF ~validIndex(index) THEN [ret |-> 1, mem |-> mem]
    ELSE [ret |-> 0, mem |-> [mem EXCEPT ![index] = None]]


\* -------------------------------------------------------------- FileSystem
\* dict.get(name) is truthy: the name has a record and the record is not [].
Truthy(ft, name) == name \in DOMAIN ft /\ ft[name] # <<>>

\* __check_space: subtract the ranges' lengths, last range first.
RECURSIVE check_space_from(_, _, _)
check_space_from(fb, i, num_blocks) ==
    IF i = 0 THEN FALSE
    ELSE LET left == num_blocks - RangeLen(fb[i])
         IN  IF left <= 0 THEN TRUE ELSE check_space_from(fb, i - 1, left)

\* __check_space accepting a request one block larger than the free space.
check_space_off_by_one(fb, num_blocks) ==
    check_space_from(fb, Len(fb), num_blocks - 1)

check_space(fb, num_blocks) == check_space_from(fb, Len(fb), num_blocks)

\* __store_blocks from block `block` on: the memory afterwards and either the
\* range tuple written ("tuple") or the bytes left over ("bytes").
RECURSIVE store_blocks_from(_, _, _, _)
store_blocks_from(mem, file_data, block_range, block) ==
    IF block >= block_range[2]
    THEN [kind |-> "bytes", range |-> <<0, 0>>, data |-> file_data, mem |-> mem]
    ELSE LET filled == fillBlock(mem, block, Take(file_data, block_size)).mem
             rest == Drop(file_data, block_size)
         IN  IF rest = <<>>
             THEN [kind |-> "tuple", range |-> <<block_range[1], block + 1>>,
                   data |-> <<>>, mem |-> filled]
             ELSE store_blocks_from(filled, rest, block_range, block + 1)

\* __store_blocks returning (block_range[0], block) for the range written.
store_blocks_short(mem, file_data, block_range) ==
    LET r == store_blocks_from(mem, file_data, block_range, block_range[1])
    IN  IF r.kind = "tuple"
        THEN [r EXCEPT !.range = <<r.range[1], r.range[2] - 1>>]
        ELSE r

store_blocks(mem, file_data, block_range) ==
    store_blocks_from(mem, file_data, block_range, block_range[1])

\* take_first_fit with the unwritten part of the range found not returned
\* to the free list.
take_first_fit_drop_tail(fb, free_block, result_end) == ListRemove(fb, free_block)

\* take_first_fit with the range found left in the free list.
take_first_fit_no_remove(fb, free_block, result_end) ==
    IF free_block[2] # result_end
    THEN Append(fb, <<result_end, free_block[2]>>)
    ELSE fb

\* take_first_fit with the returned part starting one block early.
take_first_fit_early_tail(fb, free_block, result_end) ==
    Append(ListRemove(fb, free_block), <<result_end - 1, free_block[2]>>)

\* store_file, first-fit branch: the free list after the range found is
\* removed and the part of it not written (from result_end on) is appended.
take_first_fit(fb, free_block, result_end) ==
    LET removed == ListRemove(fb, free_block)
    IN  IF free_block[2] # result_end
        THEN Append(removed, <<result_end, free_block[2]>>)
        ELSE removed

\* store_file, fallback branch: list.pop() of the free list.
pop_free(fb) == [free_block |-> fb[Len(fb)], fb |-> SubSeq(fb, 1, Len(fb) - 1)]

\* The allocation loop of store_file with the first-fit test written
\* `free_block[1] - free_block[0] > num_blocks`.
RECURSIVE store_loop_strict_fit(_, _, _, _, _)
store_loop_strict_fit(fb, mem, file_data, num_blocks, blocks_used) ==
    IF num_blocks = 0
    THEN [exc |-> "", fb |-> fb, mem |-> mem, blocks_used |-> blocks_used]
    ELSE
    LET fits == {i \in 1..Len(fb) : RangeLen(fb[i]) > num_blocks}
    IN  IF fits # {}
        THEN LET i == CHOOSE k \in fits : \A j \in fits : k <= j
                 free_block == fb[i]
                 result == store_blocks(mem, file_data, free_block)
             IN  IF result.kind # "tuple"
                 THEN [exc |-> "AssertionError", fb |-> fb, mem |-> result.mem,
                       blocks_used |-> blocks_used]
                 ELSE [exc |-> "",
                       fb |-> take_first_fit(fb, free_block, result.range[2]),
                       mem |-> result.mem,
                       blocks_used |-> Append(blocks_used, result.range)]
        ELSE IF fb = <<>>
        THEN [exc |-> "IndexError", fb |-> fb, mem |-> mem,
              blocks_used |-> blocks_used]
        ELSE LET popped == pop_free(fb)
                 result == store_blocks(mem, file_data, popped.free_block)
             IN  IF result.kind # "bytes"
                 THEN [exc |-> "AssertionError", fb |-> popped.fb,
                       mem |-> result.mem, blocks_used |-> blocks_used]
                 ELSE store_loop_strict_fit(popped.fb, result.mem, result.data,
                                            ceil(Len(result.data), block_size),
                                            Append(blocks_used, popped.free_block))

\* The allocation loop of store_file.  exc is "" when the loop ends with
\* num_blocks = 0, else the exception that ended it; fb, mem and blocks_used
\* are the free list, the memory and the ranges recorded at that point.
RECURSIVE store_loop(_, _, _, _, _)
store_loop(fb, mem, file_data, num_blocks, blocks_used) ==
    IF num_blocks = 0
    THEN [exc |-> "", fb |-> fb, mem |-> mem, blocks_used |-> blocks_used]
    ELSE
    LET fits == {i \in 1..Len(fb) : RangeLen(fb[i]) >= num_blocks}
    IN  IF fits # {}
        THEN LET i == CHOOSE k \in fits : \A j \in fits : k <= j
                 free_block == fb[i]
                 result == store_blocks(mem, file_data, free_block)
             IN  IF result.kind # "tuple"
                 THEN [exc |-> "AssertionError", fb |-> fb, mem |-> result.mem,
                       blocks_used |-> blocks_used]
                 ELSE [exc |-> "",
                       fb |-> take_first_fit(fb, free_block, result.range[2]),
                       mem |-> result.mem,
                       blocks_used |-> Append(blocks_used, result.range)]
        ELSE IF fb = <<>>
        THEN [exc |-> "IndexError", fb |-> fb, mem |-> mem,
              blocks_used |-> blocks_used]
        ELSE LET popped == pop_free(fb)
                 result == store_blocks(mem, file_data, popped.free_block)
             IN  IF result.kind # "bytes"
                 THEN [exc |-> "AssertionError", fb |-> popped.fb,
                       mem |-> result.mem, blocks_used |-> blocks_used]
                 ELSE store_loop(popped.fb, result.mem, result.data,
                                 ceil(Len(result.data), block_size),
                                 Append(blocks_used, popped.free_block))

\* __sort_free_blocks: list.sort by range length; the sort is stable.
RECURSIVE sort_free_blocks(_)
sort_free_blocks(fb) ==
    IF fb = <<>> THEN <<>>
    ELSE LET x == fb[Len(fb)]
             sorted == sort_free_blocks(SubSeq(fb, 1, Len(fb) - 1))
             before == Cardinality({k \in 1..Len(sorted) :
                                       RangeLen(sorted[k]) <= RangeLen(x)})
         IN  SubSeq(sorted, 1, before) \o <<x>>
             \o SubSeq(sorted, before + 1, Len(sorted))

\* dict.update([(name, value)]) and dict.pop(name).
DictUpdate(ft, name, value) ==
    [k \in DOMAIN ft \cup {name} |-> IF k = name THEN value ELSE ft[k]]

DictPop(ft, name) == [k \in DOMAIN ft \ {name} |-> ft[k]]

\* store_file(file_data, file_name): what it returns and the state afterwards.
store_file(ft, fb, mem, file_data, file_name) ==
    IF Truthy(ft, file_name)
    THEN [ret |-> RetFalse, ft |-> ft, fb |-> fb, mem |-> mem]
    ELSE
    LET num_blocks == ceil(Len(file_data), block_size)
    IN  IF ~check_space(fb, num_blocks)
        THEN [ret |-> RetFalse, ft |-> ft, fb |-> fb, mem |-> mem]
        ELSE LET r == store_loop(fb, mem, file_data, num_blocks, <<>>)
             IN  IF r.exc # ""
                 THEN [ret |-> Raise(r.exc), ft |-> ft, fb |-> r.fb, mem |-> r.mem]
                 ELSE [ret |-> RetTrue,
                       ft |-> DictUpdate(ft, file_name, r.blocks_used),
                       fb |-> sort_free_blocks(r.fb),
                       mem |-> r.mem]

\* __get_blocks passing over an empty block instead of returning False.
RECURSIVE get_blocks_skip_empty(_, _, _)
get_blocks_skip_empty(mem, blocks, data) ==
    IF blocks = <<>> THEN RetBytes(data)
    ELSE LET result == getBlock(mem, Head(blocks))
         IN  IF result[1] = "status" THEN Raise("TypeError")
             ELSE IF result[2] = None \/ result[2] = <<>>
             THEN get_blocks_skip_empty(mem, Tail(blocks), data)
             ELSE get_blocks_skip_empty(mem, Tail(blocks), data \o result[2])

\* __get_blocks over the blocks still to read, data being the bytes read so far.
RECURSIVE get_blocks_from(_, _, _)
get_blocks_from(mem, blocks, data) ==
    IF blocks = <<>> THEN RetBytes(data)
    ELSE LET result == getBlock(mem, Head(blocks))
         IN  IF result[1] = "status" THEN Raise("TypeError")
             ELSE IF result[2] = None \/ result[2] = <<>> THEN RetFalse
             ELSE get_blocks_from(mem, Tail(blocks), data \o result[2])

get_blocks(mem, block_ranges) == get_blocks_from(mem, BlocksOf(block_ranges), <<>>)

\* get_file reading the blocks of an empty record when the name has none.
get_file_unknown_empty(ft, mem, file_name) ==
    IF ~Truthy(ft, file_name) THEN get_blocks(mem, <<>>)
    ELSE get_blocks(mem, ft[file_name])

\* get_file(file_name): what it returns; it assigns nothing.
get_file(ft, mem, file_name) ==
    IF ~Truthy(ft, file_name) THEN RetFalse ELSE get_blocks(mem, ft[file_name])

\* __empty_blocks over the blocks still to clear: emptyBlock's status is
\* tested with `not result`, and the ok status 0 is the falsy one.
RECURSIVE empty_blocks_from(_, _)
empty_blocks_from(mem, blocks) ==
    IF blocks = <<>> THEN [ok |-> TRUE, mem |-> mem]
    ELSE LET result == emptyBlock(mem, Head(blocks))
         IN  IF result.ret = 0 THEN [ok |-> FALSE, mem |-> result.mem]
             ELSE empty_blocks_from(result.mem, Tail(blocks))

empty_blocks(mem, block_ranges) == empty_blocks_from(mem, BlocksOf(block_ranges))

\* delete_file, one pass of the inner loop: the free list after block_range
\* is merged with the first free range that touches it, or appended.
release(fb, block_range) ==
    LET touch == {i \in 1..Len(fb) :
                     fb[i][2] = block_range[1] \/ fb[i][1] = block_range[2]}
    IN  IF touch = {} THEN Append(fb, block_range)
        ELSE LET i == CHOOSE k \in touch : \A j \in touch : k <= j
                 free_block == fb[i]
             IN  IF free_block[2] = block_range[1]
                 THEN Append(ListRemove(fb, free_block),
                             <<free_block[1], block_range[2]>>)
                 ELSE Append(ListRemove(fb, free_block),
                             <<block_range[1], free_block[2]>>)

RECURSIVE release_all(_, _)
release_all(fb, file_blocks) ==
    IF file_blocks = <<>> THEN fb
    ELSE release_all(release(fb, Head(file_blocks)), Tail(file_blocks))

\* delete_file(file_name): what it returns and the state afterwards.
delete_file(ft, fb, mem, file_name) ==
    IF ~Truthy(ft, file_name)
    THEN [ret |-> RetFalse, ft |-> ft, fb |-> fb, mem |-> mem]
    ELSE
    LET file_blocks == ft[file_name]
        emptied == empty_blocks(mem, file_blocks)
    IN  IF ~emptied.ok
        THEN [ret |-> RetFalse, ft |-> ft, fb |-> fb, mem |-> emptied.mem]
        ELSE [ret |-> RetTrue,
              ft |-> DictPop(ft, file_name),
              fb |-> sort_free_blocks(release_all(fb, file_blocks)),
              mem |-> emptied.mem]

\* ------------------------------------------------------- LogicalFileSystem
\* A Directory (directory_name, parent_directory) is the sequence of the
\* directory names from it up to the root; the parent_directory None of the
\* root is the empty sequence.  The dataclass compares field by field, which
\* is equality of these sequences.
NoDirectory == << >>

Directory(directory_name, parent_directory) ==
    <<directory_name>> \o parent_directory

directory_name_of(dir) == dir[1]

parent_directory_of(dir) == Tail(dir)

\* dir.parent_directory and dir.parent_directory.directory_name == name.
parent_named(dir, name) ==
    /\ parent_directory_of(dir) # NoDirectory
    /\ directory_name_of(parent_directory_of(dir)) = name

\* A FileControlBlock; file_type, modified_date and size play no part in
\* the operations modelled and are left out.
FileControlBlock(file_name, file_id, parent_dir) ==
    [file_name |-> file_name, file_id |-> file_id, parent_dir |-> parent_dir]

\* The least index of a non-empty set of list indices.
First(S) == CHOOSE i \in S : \A j \in S : i <= j

\* The state of a LogicalFileSystem: its two tables and the identifiers the
\* file store under it holds.
LfsState(dirs, fcbs, ids) == [dirs |-> dirs, fcbs |-> fcbs, ids |-> ids]

\* store(identifier, payload) -> bool of the file store: the identifier is
\* held afterwards when the store has room for the payload.
store_data(ids, file_id, has_space) ==
    [ok |-> has_space /\ file_id \notin ids,
     ids |-> IF has_space THEN ids \cup {file_id} ELSE ids]

\* delete(identifier) -> bool of the file store: succeeds for an identifier
\* held, which is not held afterwards.
delete_data(ids, file_id) ==
    [ok |-> file_id \in ids, ids |-> ids \ {file_id}]

\* uuid4(): an identifier no file holds.  Identifiers are only compared for
\* equality, so the least one not held stands for any fresh value.
uuid4(ids) == First(FileIds \ ids)

\* create_file(file_name, file_path, directory_name); readable tells whether
\* open(file_path) succeeds, file_id is the value of uuid4().
create_file(st, file_name, directory_name, readable, file_id, has_space) ==
    LET dup == \E i \in 1..Len(st.fcbs) :
                   /\ st.fcbs[i].file_name = file_name
                   /\ directory_name_of(st.fcbs[i].parent_dir) = directory_name
        found == {i \in 1..Len(st.dirs) :
                      directory_name_of(st.dirs[i]) = directory_name}
    IN  IF dup \/ found = {}
        THEN [ret |-> RetFalse, st |-> st]
        ELSE IF ~readable
        THEN [ret |-> Raise("FileNotFoundError"), st |-> st]
        ELSE LET directory == st.dirs[First(found)]
                 fcb == FileControlBlock(file_name, file_id, directory)
                 r == store_data(st.ids, fcb.file_id, has_space)
             IN  IF r.ok
                 THEN [ret |-> RetTrue,
                       st |-> LfsState(st.dirs, Append(st.fcbs, fcb), r.ids)]
                 ELSE [ret |-> RetFalse,
                       st |-> LfsState(st.dirs, st.fcbs, r.ids)]

\* create_directory(directory_name, parent_directory_name): the loop keeps
\* the last directory named parent_directory_name as the parent and returns
\* False at a directory of the new name under a parent of that name, unless
\* that directory is itself named parent_directory_name (the elif).
create_directory(st, directory_name, parent_directory_name) ==
    LET parents == {i \in 1..Len(st.dirs) :
                        directory_name_of(st.dirs[i]) = parent_directory_name}
        exists == \E i \in 1..Len(st.dirs) :
                      /\ i \notin parents
                      /\ directory_name_of(st.dirs[i]) = directory_name
                      /\ parent_named(st.dirs[i], parent_directory_name)
    IN  IF exists \/ parents = {}
        THEN [ret |-> RetFalse, st |-> st]
        ELSE LET parent_directory ==
                     st.dirs[CHOOSE i \in parents : \A j \in parents : j <= i]
             IN  [ret |-> RetTrue,
                  st |-> LfsState(Append(st.dirs,
                                         Directory(directory_name,
                                                   parent_directory)),
                                  st.fcbs, st.ids)]

\* LogicalFileSystem.delete_file(file_name): the first FileControlBlock of
\* that name, in whatever directory, is deleted from the store and removed.
lfs_delete_file(st, file_name) ==
    LET found == {i \in 1..Len(st.fcbs) : st.fcbs[i].file_name = file_name}
    IN  IF found = {}
        THEN [ret |-> RetFalse, st |-> st]
        ELSE LET fcb == st.fcbs[First(found)]
                 r == delete_data(st.ids, fcb.file_id)
             IN  IF r.ok
                 THEN [ret |-> RetTrue,
                       st |-> LfsState(st.dirs, ListRemove(st.fcbs, fcb),
                                       r.ids)]
                 ELSE [ret |-> RetFalse,
                       st |-> LfsState(st.dirs, st.fcbs, r.ids)]

\* The loop of delete_directory over fcb_table from list index j on: the
\* list iterator goes on to index j + 1 of the list as delete_file left it.
RECURSIVE delete_child_files(_, _, _)
delete_child_files(st, directory_name, j) ==
    IF j > Len(st.fcbs)
    THEN st
    ELSE IF directory_name_of(st.fcbs[j].parent_dir) = directory_name
    THEN delete_child_files(lfs_delete_file(st, st.fcbs[j].file_name).st,
                            directory_name, j + 1)
    ELSE delete_child_files(st, directory_name, j + 1)

\* delete_directory(directory_name).  active holds, for every call of
\* delete_directory not yet returned, its argument and the state it was
\* entered in: a call entered again with the same argument in the same
\* state repeats itself without end, which Python ends with RecursionError.
RECURSIVE delete_directory(_, _, _)
RECURSIVE delete_child_directories(_, _, _, _)

\* The loop of delete_directory over directory_table from list index i on.
delete_child_directories(st, directory_name, i, active) ==
    IF i > Len(st.dirs)
    THEN [ret |-> RetTrue, st |-> st]
    ELSE IF parent_named(st.dirs[i], directory_name)
    THEN LET r == delete_directory(st, directory_name_of(st.dirs[i]), active)
         IN  IF r.ret \notin {RetTrue, RetFalse}
             THEN r
             ELSE delete_child_directories(r.st, directory_name, i + 1,
                                           active)
    ELSE delete_child_directories(st, directory_name, i + 1, active)

delete_directory(st, directory_name, active) ==
    LET found == {i \in 1..Len(st.dirs) :
                      directory_name_of(st.dirs[i]) = directory_name}
    IN  IF found = {}
        THEN [ret |-> RetFalse, st |-> st]
        ELSE IF <<directory_name, st>> \in active
        THEN [ret |-> Raise("RecursionError"), st |-> st]
        ELSE LET del_directory == st.dirs[First(found)]
                 c == delete_child_directories(
                          st, directory_name, 1,
                          active \cup {<<directory_name, st>>})
             IN  IF c.ret # RetTrue
                 THEN c
                 ELSE LET s == delete_child_files(c.st, directory_name, 1)
                      IN  IF \E k \in 1..Len(s.dirs) : s.dirs[k] = del_directory
                          THEN [ret |-> RetTrue,
                                st |-> LfsState(ListRemove(s.dirs,
                                                           del_directory),
                                                s.fcbs, s.ids)]
                          ELSE [ret |-> Raise("ValueError"), st |-> s]

\* The record of a LogicalFileSystem call; created_only tells whether every
\* call made so far is a create_directory or a create_file.
LfsCall(op, name, ret, created_only) ==
    [op |-> op, name |-> name, ret |-> ret, created_only |-> created_only]

NoLfsCall == LfsCall("init", "", RetTrue, TRUE)

\* ------------------------------------------------------------------- state
\* The payloads handed to store_file: for a file name and a length n, the n
\* bytes 100*k + 1, 100*k + 2, ... with k the number of the file name, so
\* that no two bytes of the payloads in memory are equal.
IdNum == ("id1" :> 1) @@ ("id2" :> 2) @@ ("id3" :> 3)

Payload(id, n) == [i \in 1..n |-> 100 * IdNum[id] + i]

Lengths == 0..MaxLen

\* The record of a call: the operation, the file name, what it returned, and
\* facts about the state it was made in: the number of blocks the payload
\* needs (store_file), whether that many blocks were free (store_file),
\* whether the name had a record (in_table) and a non-empty one (known), and
\* which blocks the name's record held (delete_file).
Call(op, id, data, ret) ==
    [op |-> op, id |-> id, ret |-> ret,
     num_blocks |-> IF op = "store" THEN ceil(Len(data), block_size) ELSE 0,
     fits |-> op = "store" /\ ceil(Len(data), block_size) <= TotalLen(free_blocks),
     in_table |-> id \in DOMAIN file_table,
     known |-> Truthy(file_table, id),
     blocks |-> IF op = "delete" /\ id \in DOMAIN file_table
                THEN BlockSet(file_table[id]) ELSE {}]

NoCall ==
    [op |-> "init", id |-> "", ret |-> RetTrue, num_blocks |-> 0,
     fits |-> FALSE, in_table |-> FALSE, known |-> FALSE, blocks |-> {}]

\* The calls of the fragmentation scenario, in order: store a 1-block payload
\* as id1, store a 1-block payload as id2, delete id1, store a 3-block
\* payload as id3.
FragCalls ==
    << [op |-> "store", id |-> "id1", num_blocks |-> 1],
       [op |-> "store", id |-> "id2", num_blocks |-> 1],
       [op |-> "delete", id |-> "id1", num_blocks |-> 0],
       [op |-> "store", id |-> "id3", num_blocks |-> 3] >>

\* scen after a call: k when the calls made since construction are exactly
\* the first k calls of FragCalls, -1 otherwise.
ScenStep(op, id, num_blocks) ==
    IF /\ scen >= 0 /\ scen < Len(FragCalls)
       /\ FragCalls[scen + 1] = [op |-> op, id |-> id, num_blocks |-> num_blocks]
    THEN scen + 1
    ELSE -1

\* FileSystem(block_size, memory_size): every slot None, one free range
\* covering the memory, no file.
Constructed(bs, ms) ==
    /\ block_size = bs
    /\ memory_size = ms
    /\ memory = [i \in 0..(ms - 1) |-> None]
    /\ free_blocks = << <<0, ms>> >>
    /\ file_table = << >>
    /\ last = NoCall
    /\ payload_of = << >>
    /\ scen = 0
    /\ written = [i \in 0..(ms - 1) |-> None]
    /\ directory_table = << Directory("root", NoDirectory) >>
    /\ fcb_table = << >>
    /\ data_ids = {}
    /\ lfs_last = NoLfsCall

Init == \E bs \in 1..MaxBlock, ms \in 1..MaxMem : Constructed(bs, ms)

\* ----------------------------------------------------------------- actions
StoreFileCall(lengths) ==
    \E n \in lengths, file_name \in Ids :
        LET file_data == Payload(file_name, n)
            r == store_file(file_table, free_blocks, memory, file_data, file_name)
        IN  /\ file_table' = r.ft
            /\ free_blocks' = r.fb
            /\ memory' = r.mem
            /\ last' = Call("store", file_name, file_data, r.ret)
            /\ payload_of' = IF r.ret = RetTrue
                             THEN DictUpdate(payload_of, file_name, file_data)
                             ELSE payload_of
            /\ scen' = ScenStep("store", file_name,
                                ceil(Len(file_data), block_size))
            /\ UNCHANGED lfs_vars
            /\ UNCHANGED <<block_size, memory_size, written>>

GetFileCall ==
    \E file_name \in Ids :
        /\ last' = Call("get", file_name, <<>>,
                        get_file(file_table, memory, file_name))
        /\ scen' = ScenStep("get", file_name, 0)
        /\ UNCHANGED lfs_vars
        /\ UNCHANGED <<block_size, memory_size, memory, free_blocks,
                       file_table, payload_of, written>>

DeleteFileCall ==
    \E file_name \in Ids :
        LET r == delete_file(file_table, free_blocks, memory, file_name)
        IN  /\ file_table' = r.ft
            /\ free_blocks' = r.fb
            /\ memory' = r.mem
            /\ last' = Call("delete", file_name, <<>>, r.ret)
            /\ payload_of' = IF r.ret = RetTrue
                             THEN DictPop(payload_of, file_name)
                             ELSE payload_of
            /\ scen' = ScenStep("delete", file_name, 0)
            /\ UNCHANGED lfs_vars
            /\ UNCHANGED <<block_size, memory_size, written>>

StoreFile == StoreFileCall(Lengths)

Next == StoreFile \/ GetFileCall \/ DeleteFileCall

Spec == Init /\ [][Next]_vars

\* The fragmentation scenario's system, FileSystem(10, 10), with payloads of
\* one block (10 bytes) and of three blocks (25 and 30 bytes).
FragLengths == {FragBlockSize, 2 * FragBlockSize + 5, 3 * FragBlockSize}

InitFrag == Constructed(FragBlockSize, FragMemSize)

StoreFileFrag == StoreFileCall(FragLengths)

NextFrag == StoreFileFrag \/ GetFileCall \/ DeleteFileCall

SpecFrag == InitFrag /\ [][NextFrag]_vars

\* ------------------------------------------------- MemorySystem used alone
\* The data handed to fillBlock: for every length 0..MaxBlock + 1 (one byte
\* more than the largest block size) the bytes 1, 2, ..., and the same bytes
\* plus 50.
MemData ==
    {[i \in 1..n |-> i + d] : n \in 0..(MaxBlock + 1), d \in {0, 50}}

\* The indices handed to the operations: every slot, and one index before
\* the first and one or two past the last.
MemIndices == -1..(memory_size + 1)

\* The record of a call of a MemorySystem method: the method, the index, the
\* length of the data (fillBlock) and what was returned: the status, or for
\* getBlock <<"status", 1>> or <<"block", the slot>>.
MemCall(op, index, data, ret) ==
    [op |-> op, index |-> index, len |-> Len(data), ret |-> ret]

\* MemorySystem(block_size, memory_size).
InitMem == \E bs \in 1..MaxBlock, ms \in 1..MaxMem : Constructed(bs, ms)

FillBlockCall ==
    \E index \in MemIndices, data \in MemData :
        LET r == fillBlock(memory, index, data)
        IN  /\ memory' = r.mem
            /\ last' = MemCall("fillBlock", index, data, r.ret)
            /\ written' = IF r.ret = 0
                          THEN [written EXCEPT ![index] = data]
                          ELSE written
            /\ UNCHANGED lfs_vars
            /\ UNCHANGED <<block_size, memory_size, free_blocks, file_table,
                           payload_of, scen>>

GetBlockCall ==
    \E index \in MemIndices :
        /\ last' = MemCall("getBlock", index, <<>>, getBlock(memory, index))
        /\ UNCHANGED lfs_vars
        /\ UNCHANGED <<block_size, memory_size, memory, free_blocks,
                       file_table, payload_of, scen, written>>

EmptyBlockCall ==
    \E index \in MemIndices :
        LET r == emptyBlock(memory, index)
        IN  /\ memory' = r.mem
            /\ last' = MemCall("emptyBlock", index, <<>>, r.ret)
            /\ written' = IF r.ret = 0
                          THEN [written EXCEPT ![index] = None]
                          ELSE written
            /\ UNCHANGED lfs_vars
            /\ UNCHANGED <<block_size, memory_size, free_blocks, file_table,
                           payload_of, scen>>

NextMem == FillBlockCall \/ GetBlockCall \/ EmptyBlockCall

SpecMem == InitMem /\ [][NextMem]_vars

\* ---------------------------------------------- LogicalFileSystem calls
\* LogicalFileSystem(10, 10): the directory table holds the root alone.
InitLfs == Constructed(FragBlockSize, FragMemSize)

LfsNow == LfsState(directory_table, fcb_table, data_ids)

LfsStep(r, op, name, created_only) ==
    /\ directory_table' = r.st.dirs
    /\ fcb_table' = r.st.fcbs
    /\ data_ids' = r.st.ids
    /\ lfs_last' = LfsCall(op, name, r.ret, created_only)
    /\ UNCHANGED <<block_size, memory_size, memory, free_blocks, file_table,
                   last, payload_of, scen, written>>

CreateDirectoryCall ==
    /\ Len(directory_table) < MaxDirs
    /\ \E directory_name \in DirNames, parent_directory_name \in AllDirNames :
           LfsStep(create_directory(LfsNow, directory_name,
                                    parent_directory_name),
                   "create_directory", directory_name,
                   lfs_last.created_only)

CreateFileCall ==
    /\ Cardinality(data_ids) < MaxFiles
    /\ \E file_name \in FileNames, directory_name \in AllDirNames,
       readable \in BOOLEAN, has_space \in BOOLEAN :
           LfsStep(create_file(LfsNow, file_name, directory_name, readable,
                               uuid4(data_ids), has_space),
                   "create_file", file_name, lfs_last.created_only)

LfsDeleteFileCall ==
    \E file_name \in FileNames :
        LfsStep(lfs_delete_file(LfsNow, file_name), "delete_file", file_name,
                FALSE)

DeleteDirectoryCall ==
    \E directory_name \in AllDirNames :
        LfsStep(delete_directory(LfsNow, directory_name, {}),
                "delete_directory", directory_name, FALSE)

NextLfs ==
    \/ CreateDirectoryCall
    \/ CreateFileCall
    \/ LfsDeleteFileCall
    \/ DeleteDirectoryCall

SpecLfs == InitLfs /\ [][NextLfs]_vars

\* ------------------------------------------------------------------ claims
\* Whether block index b lies in range r.
Contains(r, b) == r[1] <= b /\ b < r[2]

\* The number of ranges of a list that block index b lies in.
TimesIn(ranges, b) == Cardinality({k \in 1..Len(ranges) : Contains(ranges[k], b)})

\* The sum of f over the file names in names.
RECURSIVE SumOver(_, _)
SumOver(f, names) ==
    IF names = {} THEN 0
    ELSE LET n == CHOOSE x \in names : TRUE
         IN  f[n] + SumOver(f, names \ {n})

RecordedBlocks == SumOver([id \in DOMAIN file_table |-> TotalLen(file_table[id])],
                          DOMAIN file_table)

StoredNames == {id \in DOMAIN file_table : file_table[id] # <<>>}

\* C1: in every reachable state the lengths of the free ranges and the
\* lengths of the ranges recorded for the files add up to memory_size.
C1_CapacityInvariant == TotalLen(free_blocks) + RecordedBlocks = memory_size

\* C1 witness: two files hold blocks, blocks are still free, and a failed
\* delete_file has just returned.
C1_Witness ==
    /\ Cardinality(StoredNames) >= 2
    /\ free_blocks # <<>>
    /\ last.op = "delete" /\ last.known /\ last.ret = RetFalse

C3_NoDoubleAllocation ==
    \A b \in 0..(memory_size - 1) :
        TimesIn(free_blocks, b)
        + SumOver([id \in DOMAIN file_table |-> TimesIn(file_table[id], b)],
                  DOMAIN file_table) = 1

\* C3 witness: three files hold blocks and no block is free.
C3_Witness == Cardinality(StoredNames) = 3 /\ free_blocks = <<>>

\* C4: a store_file under a name without a record, of a payload needing no
\* more blocks than are free, returns True, and get_file of that name then
\* returns exactly the payload.
C4_RoundTrip ==
    (last.op = "store" /\ ~last.in_table /\ last.fits) =>
        /\ last.ret = RetTrue
        /\ get_file(file_table, memory, last.id) = RetBytes(payload_of[last.id])

\* C5: a store_file under a name that has a record returns False, changes
\* neither the file table, the free list nor the memory, and get_file of the
\* name still returns the payload stored first.
C5_NoDoubleStore ==
    [][(last'.op = "store" /\ last'.in_table) =>
          /\ last'.ret = RetFalse
          /\ UNCHANGED <<file_table, free_blocks, memory>>
          /\ get_file(file_table', memory', last'.id)
                 = RetBytes(payload_of[last'.id])]_vars

\* C6: a store_file of a payload needing more blocks than are free returns
\* False and changes neither the file table, the free list nor the memory.
C6_InsufficientSpace ==
    [][(last'.op = "store" /\ ~last'.fits) =>
          /\ last'.ret = RetFalse
          /\ UNCHANGED <<file_table, free_blocks, memory>>]_vars

\* C6 witness: a store_file under an unused name has just been refused while
\* some blocks, fewer than the payload needs, were free; and the payload
\* needed more blocks than the memory has.
C6_Witness ==
    /\ last.op = "store" /\ ~last.fits /\ ~last.in_table
    /\ last.ret = RetFalse
    /\ free_blocks # <<>>
    /\ last.num_blocks > memory_size

\* C7: a delete_file of a name that has a record returns True; afterwards the
\* name has no record, every block of its former ranges is empty and lies in
\* a free range.
C7_DeletePostcondition ==
    (last.op = "delete" /\ last.in_table) =>
        /\ last.ret = RetTrue
        /\ last.id \notin DOMAIN file_table
        /\ \A b \in last.blocks :
               memory[b] = None /\ TimesIn(free_blocks, b) >= 1

\* C8: when delete_file of a stored name is followed by store_file under a
\* new name of a payload needing as many blocks as the deleted record held,
\* get_file of the deleted name fails, the store returns True and its record
\* uses blocks the delete freed.
C8_DeleteFreesSpace ==
    [][(/\ last.op = "delete" /\ last.in_table
        /\ last'.op = "store" /\ ~last'.in_table
        /\ last'.num_blocks = Cardinality(last.blocks)) =>
          /\ get_file(file_table, memory, last.id) = RetFalse
          /\ last'.ret = RetTrue
          /\ (last.blocks # {} =>
                 BlockSet(file_table'[last'.id]) \cap last.blocks # {})]_vars

\* C9: get_file and delete_file of a name without a record return False
\* (they do not raise) and change neither the file table, the free list
\* (its order included) nor the memory.
C9_UnknownIdentifier ==
    [][(last'.op \in {"get", "delete"} /\ ~last'.in_table) =>
          /\ last'.ret = RetFalse
          /\ UNCHANGED <<file_table, free_blocks, memory>>]_vars

\* C9 witness: a get_file of a name without a record has just returned while
\* another file holds blocks.
C9_Witness ==
    /\ last.op = "get" /\ ~last.in_table /\ last.ret = RetFalse
    /\ StoredNames # {}

\* C10 as stated: in FileSystem(10, 10), after the calls of FragCalls the
\* store of id3 has returned True and the record of id3 spans more than one
\* range and includes block 0.
C10_FragmentationFallback ==
    (scen = Len(FragCalls) /\ block_size = FragBlockSize
     /\ memory_size = FragMemSize) =>
        /\ last.ret = RetTrue
        /\ Len(file_table["id3"]) > 1
        /\ 0 \in BlockSet(file_table["id3"])

\* C10 amended: in FileSystem(10, 10), after the calls of FragCalls the
\* store of id3 has returned True and the record of id3 is the single range
\* <<2, 5>>, taken first-fit from the free range behind the block of id2;
\* block 0 is not part of it.
C10_FragmentationFirstFit ==
    (scen = Len(FragCalls) /\ block_size = FragBlockSize
     /\ memory_size = FragMemSize) =>
        /\ last.ret = RetTrue
        /\ file_table["id3"] = << <<2, 5>> >>
        /\ 0 \notin BlockSet(file_table["id3"])

\* C10 witness: the four calls of FragCalls have been made in
\* FileSystem(10, 10), the last one being the store of id3.
C10_Witness ==
    /\ scen = Len(FragCalls)
    /\ block_size = FragBlockSize /\ memory_size = FragMemSize
    /\ last.op = "store" /\ last.id = "id3" /\ last.num_blocks = 3

\* C11: for an index outside [0, memory_size) fillBlock, getBlock and
\* emptyBlock return status 1 and change no slot; for an index inside and
\* data longer than block_size fillBlock returns 2 and changes no slot;
\* otherwise fillBlock and emptyBlock return 0.
C11_BlockStoreErrors ==
    [][LET c == last'
           outside == c.index < 0 \/ c.index >= memory_size
       IN  /\ (c.op \in {"fillBlock", "emptyBlock"} /\ outside) =>
                  (c.ret = 1 /\ UNCHANGED memory)
           /\ (c.op = "getBlock" /\ outside) =>
                  (c.ret = <<"status", 1>> /\ UNCHANGED memory)
           /\ (c.op = "fillBlock" /\ ~outside /\ c.len > block_size) =>
                  (c.ret = 2 /\ UNCHANGED memory)
           /\ (c.op = "fillBlock" /\ ~outside /\ c.len <= block_size) =>
                  c.ret = 0
           /\ (c.op = "emptyBlock" /\ ~outside) => c.ret = 0]_vars

\* C11 witness: a fillBlock of data longer than block_size into a slot that
\* holds data has just returned 2, and the slot still holds its data.
C11_Witness ==
    /\ last.op = "fillBlock" /\ last.ret = 2
    /\ last.index \in 0..(memory_size - 1)
    /\ memory[last.index] # None
    /\ memory[last.index] = written[last.index]

\* C12: every slot holds the data of the last successful fillBlock of it with
\* no successful emptyBlock after it, else None, and getBlock returns it; a
\* successful fillBlock or emptyBlock changes the slot of its index only, and
\* getBlock changes no slot.
C12_SingleSlotEffect ==
    [][LET c == last'
       IN  /\ \A i \in 0..(memory_size - 1) : memory'[i] = written'[i]
           /\ (c.op = "getBlock" /\ c.index \in 0..(memory_size - 1)) =>
                  c.ret = <<"block", written[c.index]>>
           /\ c.op = "getBlock" => UNCHANGED memory
           /\ c.op \in {"fillBlock", "emptyBlock"} =>
                  \A i \in 0..(memory_size - 1) :
                      i # c.index => memory'[i] = memory[i]]_vars

\* C12 witness: a getBlock has just returned None for a slot that was filled
\* and then emptied, while another slot holds data.
C12_Witness ==
    /\ last.op = "getBlock" /\ last.ret = <<"block", None>>
    /\ \E i \in 0..(memory_size - 1) : memory[i] # None /\ memory[i] # <<>>

\* C14: for every reachable free list and every block count n >= 0,
\* __check_space(n) is True exactly when the lengths of the free ranges add
\* up to n or more.
C14_CheckSpaceIsTotalFree ==
    \A n \in 0..(memory_size + 1) :
        check_space(free_blocks, n) <=> TotalLen(free_blocks) >= n

\* C17: a store_file raises nothing; one that passed the duplicate and the
\* capacity check returns True with exactly the payload's number of blocks
\* recorded (the loop ended with num_blocks = 0); and a payload of one block
\* or more that fits under a name with no non-empty record passes both.
C17_StoreCompletes ==
    last.op = "store" =>
        /\ last.ret \in {RetTrue, RetFalse}
        /\ last.ret # RetFalse =>
               TotalLen(file_table[last.id]) = last.num_blocks
        /\ (~last.known /\ last.fits /\ last.num_blocks > 0) =>
               last.ret = RetTrue

\* C17 witness: a store_file of a payload of two blocks or more has just
\* returned True, taking the whole free range.
C17_Witness ==
    /\ last.op = "store" /\ last.ret = RetTrue /\ last.num_blocks >= 2
    /\ free_blocks = <<>>

\* C18: for every file of the file table, stored from a payload of length L,
\* its ranges hold ceil(L / block_size) blocks, and in range order then
\* block order the k-th block holds the k-th block_size bytes of the payload
\* (the last block the payload's tail).
C18_ExactFitRecords ==
    \A id \in DOMAIN file_table :
        LET payload == payload_of[id]
            blocks == BlocksOf(file_table[id])
        IN  /\ Len(blocks) = ceil(Len(payload), block_size)
            /\ \A k \in 1..Len(blocks) :
                   memory[blocks[k]] =
                       Take(Drop(payload, (k - 1) * block_size), block_size)

\* C19: a get_file changes neither the file table, the free list nor the
\* memory, and when a block of the name's record is empty it returns False.
C19_FailFastRead ==
    [][last'.op = "get" =>
          /\ UNCHANGED <<file_table, free_blocks, memory>>
          /\ (/\ last'.known
              /\ \E b \in BlockSet(file_table[last'.id]) : memory[b] = None)
             => last'.ret = RetFalse]_vars

\* C19 witness: a get_file has just returned False for a name whose record
\* has an empty block and a block that holds data.
C19_Witness ==
    /\ last.op = "get" /\ last.known /\ last.ret = RetFalse
    /\ \E b \in BlockSet(file_table[last.id]) : memory[b] = None
    /\ \E b \in BlockSet(file_table[last.id]) : memory[b] # None

\* C20: a slot holds a payload exactly when its index lies in a range
\* recorded for some file (so every block of a free range is empty and every
\* block of a recorded file, also after a failed delete_file, is intact).
C20_BlockOccupancy ==
    \A b \in 0..(memory_size - 1) :
        (memory[b] # None /\ memory[b] # <<>>)
            <=> \E id \in DOMAIN file_table : b \in BlockSet(file_table[id])

\* C13: when delete_directory(name) returns True in a state reached by
\* create_directory and create_file calls, afterwards the directory it found
\* is gone from directory_table, no directory has a parent named name, no
\* FileControlBlock has a parent_dir named name, and every file whose
\* parent directory lies outside the directories named name is still in
\* fcb_table.
C13_SubtreeRemoved ==
    [][(/\ lfs_last.created_only
        /\ lfs_last'.op = "delete_directory"
        /\ lfs_last'.ret = RetTrue)
       => LET name == lfs_last'.name
              del_directory ==
                  directory_table[First({i \in 1..Len(directory_table) :
                      directory_name_of(directory_table[i]) = name})]
          IN  /\ \A i \in 1..Len(directory_table') :
                     /\ directory_table'[i] # del_directory
                     /\ ~parent_named(directory_table'[i], name)
              /\ \A j \in 1..Len(fcb_table') :
                     directory_name_of(fcb_table'[j].parent_dir) # name
              /\ \A j \in 1..Len(fcb_table) :
                     (\A k \in 1..Len(fcb_table[j].parent_dir) :
                          fcb_table[j].parent_dir[k] # name)
                     => \E k \in 1..Len(fcb_table') :
                            fcb_table'[k] = fcb_table[j]]_vars
=============================================================================
